---------------------------- MODULE Spec2Model ----------------------------
(***************************************************************************)
(* A model of the lexer of src/src/main.rs: the Lexer struct (input,       *)
(* position, current_char, line_number, symbol_table) and its operations.  *)
(*                                                                         *)
(* The input String is modelled as its UTF-8 byte sequence: a character    *)
(* of encoded width w occupies w consecutive elements, the first being the *)
(* character itself and the others the marker Cont (a continuation byte).  *)
(* position is a byte offset, as in the source, so the source's            *)
(* "position - 1" slices and its use of position as a character index in   *)
(* seek_offset are modelled as written.                                    *)
(***************************************************************************)
EXTENDS Integers, Sequences, FiniteSets, TLC

(***************************************************************************)
(* Bounds of the model.                                                    *)
(***************************************************************************)
\* longest input drawn from Alphabet
MaxLen == 3
\* longest input drawn from LayoutAlphabet
MaxLayoutLen == 5
\* next_token calls made after the first EOF was returned
MaxEofCalls == 2

(***************************************************************************)
(* Characters.                                                             *)
(***************************************************************************)
\* Option<char>::None
None == "None"
\* a UTF-8 continuation byte
Cont == "cont"
\* U+00A0 NO-BREAK SPACE: White_Space, two bytes
NBSP == "U+00A0"
\* U+00E9 LATIN SMALL LETTER E WITH ACUTE: Alphabetic, two bytes
EAcute == "U+00E9"
\* U+20AC EURO SIGN: neither whitespace nor alphabetic, three bytes
Euro == "U+20AC"

Digits == {"0", "1", "2", "3", "4", "5", "6", "7", "8", "9"}

AsciiLetters ==
    {"a", "b", "c", "d", "e", "f", "g", "h", "i", "j", "k", "l", "m",
     "n", "o", "p", "q", "r", "s", "t", "u", "v", "w", "x", "y", "z",
     "A", "B", "C", "D", "E", "F", "G", "H", "I", "J", "K", "L", "M",
     "N", "O", "P", "Q", "R", "S", "T", "U", "V", "W", "X", "Y", "Z"}

\* char::len_utf8
len_utf8(ch) ==
    IF ch \in {NBSP, EAcute} THEN 2 ELSE IF ch = Euro THEN 3 ELSE 1

\* char::is_whitespace
is_whitespace(ch) == ch \in {" ", "\n", "\t", "\r", NBSP}

\* char::is_alphabetic
is_alphabetic(ch) == ch \in AsciiLetters \cup {EAcute}

\* char::is_digit(10)
is_digit(ch) == ch \in Digits

\* char::is_alphanumeric
is_alphanumeric(ch) == is_alphabetic(ch) \/ ch \in Digits

DigitVal(ch) ==
    CASE ch = "0" -> 0 [] ch = "1" -> 1 [] ch = "2" -> 2 [] ch = "3" -> 3
      [] ch = "4" -> 4 [] ch = "5" -> 5 [] ch = "6" -> 6 [] ch = "7" -> 7
      [] ch = "8" -> 8 [] ch = "9" -> 9

(***************************************************************************)
(* Strings: a String is the sequence of its bytes.                         *)
(***************************************************************************)
\* the bytes of one character
Utf8(ch) == <<ch>> \o [i \in 1..(len_utf8(ch) - 1) |-> Cont]

RECURSIVE Encode(_)
\* the String holding the characters cs
Encode(cs) == IF cs = <<>> THEN <<>> ELSE Utf8(Head(cs)) \o Encode(Tail(cs))

IsLead(b) == b # Cont

\* str::chars, collected
Chars(s) == SelectSeq(s, IsLead)

\* str::chars().nth(k)
chars_nth(s, k) == IF k < Len(Chars(s)) THEN Chars(s)[k + 1] ELSE None

\* str::is_char_boundary
is_char_boundary(s, i) ==
    \/ i = 0
    \/ i = Len(s)
    \/ (0 < i /\ i < Len(s) /\ s[i + 1] # Cont)

\* whether &s[a..b] is a slice; otherwise the index expression panics
\* (b < 0 stands for the usize underflow of "position - 2": a panic in a
\* debug build, an out-of-range end in a release build)
slice_ok(s, a, b) ==
    /\ 0 <= a /\ a <= b /\ b <= Len(s)
    /\ is_char_boundary(s, a) /\ is_char_boundary(s, b)

\* &s[a..b]
slice(s, a, b) == SubSeq(s, a + 1, b)

(***************************************************************************)
(* Tokens (enum Token).  A token is a record: its variant in "type", and   *)
(* the payload of Identifier in "name", of Number in "num", of String in   *)
(* "str".                                                                  *)
(***************************************************************************)
Tok(t) == [type |-> t]
Identifier(n) == [type |-> "Identifier", name |-> n]
Number(v) == [type |-> "Number", num |-> v]
String(s) == [type |-> "String", str |-> s]
EOF == Tok("EOF")
\* Option<Token>::None, and the token slot of a call that panicked
NoToken == Tok("None")

(***************************************************************************)
(* SymbolTable: the HashMap<String, Token> as a function on its key set.   *)
(***************************************************************************)
\* SymbolTable::default
EmptyTable == [k \in {} |-> NoToken]

\* a faulty add that inserts nothing; C1 tells it from add
add_forgets(table, identifier, token) == table

\* a faulty add that starts a new map for each identifier; C20 tells it
\* from add
add_keeps_only_new(table, identifier, token) == [k \in {identifier} |-> token]

\* SymbolTable::add: entry(identifier).or_insert(token)
add(table, identifier, token) ==
    IF identifier \in DOMAIN table
    THEN table
    ELSE [k \in DOMAIN table \cup {identifier} |->
            IF k = identifier THEN token ELSE table[k]]

(***************************************************************************)
(* The program state.                                                      *)
(***************************************************************************)
VARIABLES
    input,          \* Lexer.input, as bytes
    position,       \* Lexer.position, a byte offset
    current_char,   \* Lexer.current_char, None or a character
    line_number,    \* Lexer.line_number
    symbol_table,   \* Lexer.symbol_table.symbols
    tokens,         \* the tokens returned so far by next_token, in order
    status,         \* "ok", or "panicked" once a call has panicked
    listing,        \* what SymbolTable::display has printed, if it has run
    first_run       \* the tokens of an earlier run on the input less its
                    \* last newline, when the program is run a second time

vars ==
    <<input, position, current_char, line_number, symbol_table, tokens, status,
      listing, first_run>>

\* the mutable fields of the Lexer, as the value the operations transform
Lexer ==
    [position |-> position, current_char |-> current_char,
     line_number |-> line_number, symbol_table |-> symbol_table]

(***************************************************************************)
(* The operations of impl Lexer, as operators from Lexer value to Lexer    *)
(* value.  One that returns a value, or may panic, yields a record         *)
(* [lex, val, panic].                                                      *)
(***************************************************************************)
\* a faulty next_char that advances by one byte whatever the character; C16
\* tells it from next_char
next_char_one_byte(L) ==
    IF L.position < Len(input)
    THEN [L EXCEPT !.position = @ + 1, !.current_char = input[L.position + 1]]
    ELSE [L EXCEPT !.current_char = None]

\* Lexer::next_char
next_char(L) ==
    IF L.position < Len(input)
    THEN LET ch == input[L.position + 1]
         IN  [L EXCEPT !.position = @ + len_utf8(ch), !.current_char = ch]
    ELSE [L EXCEPT !.current_char = None]

RECURSIVE skip_line(_)
\* Lexer::skip_line
skip_line(L) ==
    IF L.current_char = None
    THEN L
    ELSE IF L.current_char = "\n" THEN next_char(L) ELSE skip_line(next_char(L))

\* Lexer::seek_offset: position, a byte offset, indexes the characters
seek_offset(L, offset) == chars_nth(input, L.position + offset - 1)

RECURSIVE comment_loop(_)
\* the while loop of Lexer::skip_multiline_comment
comment_loop(L) ==
    LET L1 == next_char(L)
    IN  IF L1.current_char = None
        THEN L1
        ELSE IF L1.current_char = "*" /\ seek_offset(L1, 1) = "/"
             THEN next_char(next_char(L1))
             ELSE comment_loop(L1)

\* Lexer::skip_multiline_comment
skip_multiline_comment(L) == comment_loop(next_char(L))

\* a faulty skip_whitespace that counts no line; C9 tells it from count_line
count_line_never(L) == L

\* the line counting of Lexer::skip_whitespace
count_line(L) ==
    IF L.current_char = "\n" THEN [L EXCEPT !.line_number = @ + 1] ELSE L

RECURSIVE skip_whitespace(_)
\* Lexer::skip_whitespace
skip_whitespace(L) ==
    IF L.current_char # None /\ is_whitespace(L.current_char)
    THEN skip_whitespace(next_char(count_line(L)))
    ELSE L

\* Lexer::keyword
keyword(w) ==
    CASE
         w = <<"a", "u", "t", "o">> -> Tok("Auto")
      [] w = <<"c", "o", "n", "s", "t">> -> Tok("Const")
      [] w = <<"d", "e", "f", "a", "u", "l", "t">> -> Tok("Default")
      [] w = <<"e", "x", "t", "e", "r", "n">> -> Tok("Extern")
      [] w = <<"g", "o", "t", "o">> -> Tok("Goto")
      [] w = <<"r", "e", "g", "i", "s", "t", "e", "r">> -> Tok("Register")
      [] w = <<"s", "i", "g", "n", "e", "d">> -> Tok("Signed")
      [] w = <<"s", "i", "z", "e", "o", "f">> -> Tok("Sizeof")
      [] w = <<"s", "t", "a", "t", "i", "c">> -> Tok("Static")
      [] w = <<"u", "n", "i", "o", "n">> -> Tok("Union")
      [] w = <<"u", "n", "s", "i", "g", "n", "e", "d">> -> Tok("Unsigned")
      [] w = <<"v", "o", "l", "a", "t", "i", "l", "e">> -> Tok("Volatile")
      [] w = <<"i", "f">> -> Tok("If")
      [] w = <<"e", "l", "s", "e">> -> Tok("Else")
      [] w = <<"r", "e", "t", "u", "r", "n">> -> Tok("Return")
      [] w = <<"d", "o">> -> Tok("Do")
      [] w = <<"w", "h", "i", "l", "e">> -> Tok("While")
      [] w = <<"f", "o", "r">> -> Tok("For")
      [] w = <<"s", "w", "i", "t", "c", "h">> -> Tok("Switch")
      [] w = <<"c", "a", "s", "e">> -> Tok("Case")
      [] w = <<"b", "r", "e", "a", "k">> -> Tok("Break")
      [] w = <<"c", "o", "n", "t", "i", "n", "u", "e">> -> Tok("Continue")
      [] w = <<"e", "n", "u", "m">> -> Tok("Enum")
      [] w = <<"s", "t", "r", "u", "c", "t">> -> Tok("Struct")
      [] w = <<"t", "y", "p", "e", "d", "e", "f">> -> Tok("Typedef")
      [] w = <<"i", "n", "t">> -> Tok("Int")
      [] w = <<"l", "o", "n", "g">> -> Tok("Long")
      [] w = <<"s", "h", "o", "r", "t">> -> Tok("Short")
      [] w = <<"c", "h", "a", "r">> -> Tok("Char")
      [] w = <<"f", "l", "o", "a", "t">> -> Tok("Float")
      [] w = <<"d", "o", "u", "b", "l", "e">> -> Tok("Double")
      [] w = <<"v", "o", "i", "d">> -> Tok("Void")
      [] OTHER -> NoToken

RECURSIVE string_loop(_)
\* the while loop of Lexer::read_string
string_loop(L) ==
    IF L.current_char = None
    THEN L
    ELSE LET ch == L.current_char
             L1 == next_char(L)
         IN  IF ch = "\""
             THEN L1
             ELSE IF ch = "\\" THEN string_loop(next_char(L1)) ELSE string_loop(L1)

\* Lexer::read_string
read_string(L) ==
    LET L0 == next_char(L)
        start_pos == L0.position - 1
        L1 == string_loop(L0)
        end_pos == L1.position - 2
    IN  IF slice_ok(input, start_pos, end_pos)
        THEN [lex |-> L1, val |-> slice(input, start_pos, end_pos), panic |-> FALSE]
        ELSE [lex |-> L1, val |-> <<>>, panic |-> TRUE]

RECURSIVE digits_loop(_)
\* the while loop of Lexer::integer
digits_loop(L) ==
    IF L.current_char # None /\ is_digit(L.current_char)
    THEN digits_loop(next_char(L))
    ELSE L

RECURSIVE ident_loop(_)
\* the while loop of Lexer::identifier
ident_loop(L) ==
    IF L.current_char # None /\ (is_alphanumeric(L.current_char) \/ L.current_char = "_")
    THEN ident_loop(next_char(L))
    ELSE L

\* Lexer::identifier
identifier(L) ==
    LET start_pos == L.position - 1
        L1 == ident_loop(L)
        end_pos == L1.position - 1
    IN  IF slice_ok(input, start_pos, end_pos)
        THEN [lex |-> L1, val |-> slice(input, start_pos, end_pos), panic |-> FALSE]
        ELSE [lex |-> L1, val |-> <<>>, panic |-> TRUE]

\* i64::MAX, 9223372036854775807, as decimal digits
I64MaxDigits ==
    <<"9", "2", "2", "3", "3", "7", "2", "0", "3", "6", "8", "5", "4", "7", "7",
      "5", "8", "0", "7">>

RECURSIVE StripZeros(_)
StripZeros(s) ==
    IF s # <<>> /\ Head(s) = "0" THEN StripZeros(Tail(s)) ELSE s

RECURSIVE DigitsLeq(_, _)
\* a <= b, for digit strings of equal length
DigitsLeq(a, b) ==
    IF a = <<>>
    THEN TRUE
    ELSE IF DigitVal(Head(a)) # DigitVal(Head(b))
         THEN DigitVal(Head(a)) < DigitVal(Head(b))
         ELSE DigitsLeq(Tail(a), Tail(b))

\* whether the decimal digit string s denotes a value above i64::MAX
Overflows(s) ==
    LET t == StripZeros(s)
    IN  \/ Len(t) > Len(I64MaxDigits)
        \/ (Len(t) = Len(I64MaxDigits) /\ ~DigitsLeq(t, I64MaxDigits))

RECURSIVE DecValue(_)
\* the value of a decimal digit string
DecValue(s) ==
    IF s = <<>> THEN 0 ELSE 10 * DecValue(SubSeq(s, 1, Len(s) - 1)) + DigitVal(s[Len(s)])

\* str::parse::<i64> of a string of ASCII digits: Err on the empty string
\* (IntErrorKind::Empty) and on overflow (IntErrorKind::PosOverflow)
parse_i64(s) ==
    IF s = <<>> \/ Overflows(s)
    THEN [ok |-> FALSE, val |-> 0]
    ELSE [ok |-> TRUE, val |-> DecValue(s)]

\* Lexer::integer; the unwrap panics on Err
integer(L) ==
    LET start_pos == L.position - 1
        L1 == digits_loop(L)
        end_pos == L1.position - 1
    IN  IF ~slice_ok(input, start_pos, end_pos)
        THEN [lex |-> L1, val |-> 0, panic |-> TRUE]
        ELSE LET p == parse_i64(slice(input, start_pos, end_pos))
             IN  [lex |-> L1, val |-> p.val, panic |-> ~p.ok]

\* the characters next_token returns as a token of their own after one
\* next_char
PunctChars ==
    {"<", ">", ".", "+", "-", "=", "*", "\\", "|", ":", ";", ",", "%", "'", "&", "!", "[", "]", "{", "}", "(", ")", "^", "?", "$"}

\* the token of each of them
punct_token(ch) ==
    CASE
         ch = "<" -> "LessThan"
      [] ch = ">" -> "BiggerThan"
      [] ch = "." -> "Dot"
      [] ch = "+" -> "Plus"
      [] ch = "-" -> "Minus"
      [] ch = "=" -> "Equal"
      [] ch = "*" -> "Multiply"
      [] ch = "\\" -> "BackwardSlash"
      [] ch = "|" -> "Pipe"
      [] ch = ":" -> "Colon"
      [] ch = ";" -> "Semicolon"
      [] ch = "," -> "Comma"
      [] ch = "%" -> "Percent"
      [] ch = "'" -> "SingleQuotationMark"
      [] ch = "&" -> "Ampersand"
      [] ch = "!" -> "Exclamation"
      [] ch = "[" -> "LeftBracket"
      [] ch = "]" -> "RightBracket"
      [] ch = "{" -> "LeftBrace"
      [] ch = "}" -> "RightBrace"
      [] ch = "(" -> "LeftParen"
      [] ch = ")" -> "RightParen"
      [] ch = "^" -> "Circumflex"
      [] ch = "?" -> "QuestionMark"
      [] ch = "$" -> "DollarSign"

\* a call of next_token that returns token t with the Lexer left as L
Returns(L, t) == [lex |-> L, token |-> t, panic |-> FALSE]

\* a call of next_token that panics with the Lexer left as L
Panics(L) == [lex |-> L, token |-> NoToken, panic |-> TRUE]

\* a faulty end of input that counts one more line on every call; C2 tells
\* it from at_end
at_end_counts_line(L) == Returns([L EXCEPT !.line_number = @ + 1], EOF)

\* next_token once the while loop ends: no current character
at_end(L) == Returns(L, EOF)

\* next_token at a digit
number_token(L) ==
    LET r == integer(L)
    IN  IF r.panic THEN Panics(r.lex) ELSE Returns(r.lex, Number(r.val))

\* next_token at a double quote
string_token(L) ==
    LET r == read_string(L)
    IN  IF r.panic THEN Panics(r.lex) ELSE Returns(r.lex, String(r.val))

\* next_token at a letter or underscore
ident_token(L) ==
    LET r == identifier(L)
    IN  IF r.panic
        THEN Panics(r.lex)
        ELSE IF keyword(r.val) # NoToken
             THEN Returns(r.lex, keyword(r.val))
             ELSE Returns([r.lex EXCEPT !.symbol_table = add(@, r.val, Identifier(r.val))],
                          Identifier(r.val))

RECURSIVE next_token(_)
\* Lexer::next_token
next_token(L) ==
    LET ch == L.current_char
    IN  CASE ch = None -> at_end(L)
          [] is_digit(ch) -> number_token(L)
          [] ch = "#" -> next_token(skip_line(L))
          [] ch \in PunctChars -> Returns(next_char(L), Tok(punct_token(ch)))
          [] ch = "/" ->
                LET nch == seek_offset(L, 1)
                IN  IF nch = "/"
                    THEN next_token(skip_line(L))
                    ELSE IF nch = "*"
                         THEN next_token(skip_multiline_comment(L))
                         ELSE Returns(next_char(L), Tok("Slash"))
          [] ch = "\"" -> string_token(L)
          [] OTHER ->
                IF is_whitespace(ch)
                THEN next_token(skip_whitespace(L))
                ELSE IF is_alphabetic(ch) \/ ch = "_"
                     THEN ident_token(L)
                     ELSE Panics(L)

(***************************************************************************)
(* The inputs.                                                             *)
(***************************************************************************)
\* the characters the bounded inputs are made of: every class of character
\* next_token tells apart
Alphabet ==
    {"0", "1", "i", "f", "_", "=", "/", "*", "\n", " ", "#", "\"", "\\", "@",
     NBSP, EAcute}

\* the characters of the longer inputs: comments, whitespace and words
LayoutAlphabet == {"/", "*", "\n", " ", NBSP, "i", "f"}

\* the character sequences of length at most n over the characters A
StringsUpTo(A, n) == UNION {[1..k -> A] : k \in 0..n}

\* int x = 10 + y;
SrcDeclaration ==
    <<"i", "n", "t", " ", "x", " ", "=", " ", "1", "0", " ", "+", " ", "y", ";">>

\* 0x1A
SrcHex == <<"0", "x", "1", "A">>

\* 017
SrcOctal == <<"0", "1", "7">>

\* 17
SrcDecimal == <<"1", "7">>

\* a, b and c on three lines
SrcThreeLines == <<"a", "\n", "b", "\n", "c">>

\* "abc with no closing quote
SrcOpenString == <<"\"", "a", "b", "c">>

\* 9223372036854775808; which is i64::MAX + 1
SrcTooLarge ==
    <<"9", "2", "2", "3", "3", "7", "2", "0", "3", "6", "8", "5", "4", "7", "7",
      "5", "8", "0", "8", ";">>

\* the sample inputs longer than MaxLen or outside Alphabet
Samples ==
    {SrcDeclaration, SrcHex, SrcOctal, SrcDecimal, SrcThreeLines, SrcOpenString,
     SrcTooLarge}

Inputs ==
    StringsUpTo(Alphabet, MaxLen) \cup StringsUpTo(LayoutAlphabet, MaxLayoutLen)
        \cup Samples

(***************************************************************************)
(* The state machine.                                                      *)
(***************************************************************************)
\* Lexer::new, before its call of next_char
NewLexer ==
    [position |-> 0, current_char |-> None, line_number |-> 1,
     symbol_table |-> EmptyTable]

\* display has not run
NotShown == [shown |-> FALSE, rows |-> <<>>]

\* there was no earlier run
NoFirstRun == [done |-> FALSE, tokens |-> <<>>]

\* the state after Lexer::new(input)
Init ==
    /\ input \in {Encode(cs) : cs \in Inputs}
    /\ LET L == next_char(NewLexer)
       IN  /\ position = L.position
           /\ current_char = L.current_char
           /\ line_number = L.line_number
           /\ symbol_table = L.symbol_table
    /\ tokens = <<>>
    /\ status = "ok"
    /\ listing = NotShown
    /\ first_run = NoFirstRun

\* the number of EOF tokens returned so far
EofCount == Len(SelectSeq(tokens, LAMBDA t : t = EOF))

\* one call of next_token, as main makes them; a panic ends the process
NextToken ==
    /\ status = "ok"
    /\ ~listing.shown
    /\ EofCount <= MaxEofCalls
    /\ LET r == next_token(Lexer)
       IN  /\ position' = r.lex.position
           /\ current_char' = r.lex.current_char
           /\ line_number' = r.lex.line_number
           /\ symbol_table' = r.lex.symbol_table
           /\ tokens' = IF r.panic THEN tokens ELSE Append(tokens, r.token)
           /\ status' = IF r.panic THEN "panicked" ELSE "ok"
    /\ UNCHANGED <<input, listing, first_run>>

\* the orders in which a HashMap holding the keys S may iterate them: the
\* order is unspecified, and differs from one process to the next
IterationOrders(S) ==
    {p \in [1..Cardinality(S) -> S] : \A i, j \in DOMAIN p : p[i] = p[j] => i = j}

\* SymbolTable::display: the lines it may print, each with the number
\* idx + 1, the name and the token
display(table) ==
    {[i \in DOMAIN p |-> [idx |-> i, name |-> p[i], token |-> table[p[i]]]] :
        p \in IterationOrders(DOMAIN table)}

\* main, once its loop has met EOF: it prints the symbol table and returns
Display ==
    /\ status = "ok"
    /\ ~listing.shown
    /\ EofCount = 1
    /\ \E rows \in display(symbol_table) : listing' = [shown |-> TRUE, rows |-> rows]
    /\ UNCHANGED <<input, position, current_char, line_number, symbol_table, tokens,
                   status, first_run>>

Next == NextToken \/ Display

Spec == Init /\ [][Next]_vars

\* the program run again, on the same text followed by one newline, after a
\* run that met EOF: the tokens of that run are kept for comparison, and
\* Lexer::new builds its Lexer on the new input
Rerun ==
    /\ status = "ok"
    /\ ~listing.shown
    /\ ~first_run.done
    /\ EofCount = 1
    /\ first_run' = [done |-> TRUE, tokens |-> tokens]
    /\ input' = input \o <<"\n">>
    /\ position' = (next_char(NewLexer).position)'
    /\ current_char' = (next_char(NewLexer).current_char)'
    /\ line_number' = (next_char(NewLexer).line_number)'
    /\ symbol_table' = (next_char(NewLexer).symbol_table)'
    /\ tokens' = <<>>
    /\ UNCHANGED <<status, listing>>

TwinNext == NextToken \/ Rerun

\* two runs of the program: on a text, then on that text and a newline
TwinSpec == Init /\ [][TwinNext]_vars

(***************************************************************************)
(* What the claims speak of.                                               *)
(***************************************************************************)
\* the last token returned
LastToken == tokens[Len(tokens)]

\* the characters of the input
InputChars == Chars(input)

\* how many bytes of the input lie before the current character
ConsumedBytes ==
    position - (IF current_char = None THEN 0 ELSE len_utf8(current_char))

\* how many characters of the input lie before the current character
Consumed == Len(Chars(SubSeq(input, 1, ConsumedBytes)))

\* the unconsumed remainder: the current character and the text after it
Remainder == SubSeq(InputChars, Consumed + 1, Len(InputChars))

(***************************************************************************)
(* C1.  For the input "int x = 10 + y;" the calls of next_token return, in *)
(* order, Int, Identifier(x), Equal, Number(10), Plus, Identifier(y),      *)
(* Semicolon, EOF; the two identifiers differ; and once EOF is returned    *)
(* the symbol table holds both x and y.  No call panics.                   *)
(***************************************************************************)
DeclarationTokens ==
    <<Tok("Int"), Identifier(<<"x">>), Tok("Equal"), Number(10), Tok("Plus"),
      Identifier(<<"y">>), Tok("Semicolon"), EOF>>

C1_DeclarationScenario ==
    input = Encode(SrcDeclaration) =>
        /\ status = "ok"
        /\ Len(tokens) <= 8 => tokens = SubSeq(DeclarationTokens, 1, Len(tokens))
        /\ Len(tokens) >= 8 =>
              /\ SubSeq(tokens, 1, 8) = DeclarationTokens
              /\ tokens[2] # tokens[6]
              /\ {<<"x">>, <<"y">>} \subseteq DOMAIN symbol_table

C1_Witness ==
    /\ input = Encode(SrcDeclaration)
    /\ Len(tokens) = 8
    /\ LastToken = EOF

(***************************************************************************)
(* C2.  EOF is absorbing: once a call of next_token has returned EOF, the  *)
(* next call returns EOF too, without panicking, and leaves position,      *)
(* current_char, line_number and the symbol table as they were.            *)
(***************************************************************************)
C2_EofAbsorbing ==
    [][(EofCount > 0 /\ listing' = listing) =>
          /\ status' = "ok"
          /\ tokens' = Append(tokens, EOF)
          /\ position' = position
          /\ current_char' = current_char
          /\ line_number' = line_number
          /\ symbol_table' = symbol_table]_vars

C2_Witness ==
    /\ EofCount >= 2
    /\ Len(tokens) >= 3
    /\ symbol_table # EmptyTable
    /\ line_number > 1

(***************************************************************************)
(* C3.  Scanning terminates with EOF: for every input, each call of        *)
(* next_token returns, so that a scan stops only once EOF has been         *)
(* returned, and EOF is returned after at most length(input) calls that    *)
(* return another token.                                                   *)
(***************************************************************************)
\* no further call of next_token can be made: the process has aborted
ScanStopped == status # "ok"

C3_ScanEndsWithEof ==
    /\ ScanStopped => EofCount > 0
    /\ Len(tokens) - EofCount <= Len(InputChars)

\* the part of C3 that the code keeps: a call that returns a token other
\* than EOF leaves a strictly shorter remainder
RemainderShrinks ==
    [][(tokens' # tokens /\ tokens'[Len(tokens')] # EOF)
          => Len(Remainder') < Len(Remainder)]_vars

(***************************************************************************)
(* C4.  Longest match for operators: when the current character and the    *)
(* one after it form a two-character operator, the call of next_token      *)
(* consumes both of them for its one token.  For the input == this gives   *)
(* one token and then EOF.                                                 *)
(***************************************************************************)
TwoCharOperators ==
    {<<"-", ">">>, <<">", "=">>, <<"<", "=">>, <<"=", "=">>, <<"!", "=">>,
     <<"+", "=">>, <<"+", "+">>, <<"&", "&">>, <<"|", "|">>, <<"<", "<">>,
     <<">", ">">>}

C4_LongestMatch ==
    [][(/\ tokens' # tokens
        /\ Len(Remainder) >= 2
        /\ SubSeq(Remainder, 1, 2) \in TwoCharOperators)
          => Consumed' = Consumed + 2]_vars

(***************************************************************************)
(* C5.  Radix selection: at a digit, next_token returns Number carrying    *)
(* the value of the longest numeric run at the cursor, read in the radix   *)
(* its prefix selects (hexadecimal after 0x, octal after a leading zero,   *)
(* decimal otherwise), and consumes that run.  So 0x1A gives 26, 017 gives *)
(* 15, 17 gives 17 and 0 gives 0.                                          *)
(***************************************************************************)
HexDigits ==
    Digits \cup {"a", "b", "c", "d", "e", "f", "A", "B", "C", "D", "E", "F"}

OctDigits == {"0", "1", "2", "3", "4", "5", "6", "7"}

HexVal(ch) ==
    CASE ch \in Digits -> DigitVal(ch)
      [] ch \in {"a", "A"} -> 10 [] ch \in {"b", "B"} -> 11
      [] ch \in {"c", "C"} -> 12 [] ch \in {"d", "D"} -> 13
      [] ch \in {"e", "E"} -> 14 [] ch \in {"f", "F"} -> 15

RECURSIVE RunOf(_, _)
\* the longest prefix of cs made of characters of the set S
RunOf(S, cs) ==
    IF cs # <<>> /\ Head(cs) \in S THEN <<Head(cs)>> \o RunOf(S, Tail(cs)) ELSE <<>>

RECURSIVE RadixValue(_, _)
\* the value of the digit string ds in radix r
RadixValue(r, ds) ==
    IF ds = <<>>
    THEN 0
    ELSE r * RadixValue(r, SubSeq(ds, 1, Len(ds) - 1)) + HexVal(ds[Len(ds)])

\* the numeric literal at the head of cs, which starts with a digit: its
\* length and its value
NumericLiteral(cs) ==
    IF /\ Len(cs) >= 3
       /\ cs[1] = "0"
       /\ cs[2] \in {"x", "X"}
       /\ cs[3] \in HexDigits
    THEN LET ds == RunOf(HexDigits, SubSeq(cs, 3, Len(cs)))
         IN  [len |-> 2 + Len(ds), val |-> RadixValue(16, ds)]
    ELSE IF cs[1] = "0"
         THEN LET ds == RunOf(OctDigits, Tail(cs))
              IN  [len |-> 1 + Len(ds), val |-> RadixValue(8, ds)]
         ELSE LET ds == RunOf(Digits, cs)
              IN  [len |-> Len(ds), val |-> RadixValue(10, ds)]

C5_RadixSelection ==
    [][(tokens' # tokens /\ current_char \in Digits)
          => /\ tokens'[Len(tokens')] = Number(NumericLiteral(Remainder).val)
             /\ Consumed' = Consumed + NumericLiteral(Remainder).len]_vars

(***************************************************************************)
(* C6.  Keyword precedence: at a letter or underscore, when the longest    *)
(* identifier run at the cursor is a keyword, next_token returns that      *)
(* keyword's token and leaves the symbol table as it was; otherwise it     *)
(* returns Identifier carrying exactly the run, and the symbol table holds *)
(* the run afterwards.  This holds wherever the run sits in the input.     *)
(***************************************************************************)
IdentChars == AsciiLetters \cup Digits \cup {"_", EAcute}

\* the longest identifier run at the cursor, as a String
IdentRun == Encode(RunOf(IdentChars, Remainder))

C6_KeywordPrecedence ==
    [][(/\ tokens' # tokens
        /\ current_char # None
        /\ (is_alphabetic(current_char) \/ current_char = "_"))
          => IF keyword(IdentRun) # NoToken
             THEN /\ tokens'[Len(tokens')] = keyword(IdentRun)
                  /\ symbol_table' = symbol_table
             ELSE /\ tokens'[Len(tokens')] = Identifier(IdentRun)
                  /\ IdentRun \in DOMAIN symbol_table']_vars

(***************************************************************************)
(* C7.  An input made only of whitespace, line comments and terminated     *)
(* block comments yields EOF on the first call of next_token, and no other *)
(* token on any call.                                                      *)
(***************************************************************************)
RECURSIVE AfterLine(_)
\* cs past its first newline, or past its end when it has none
AfterLine(cs) ==
    IF cs = <<>> THEN <<>> ELSE IF Head(cs) = "\n" THEN Tail(cs) ELSE AfterLine(Tail(cs))

RECURSIVE HasClose(_)
\* whether */ occurs in cs
HasClose(cs) ==
    /\ Len(cs) >= 2
    /\ (cs[1] = "*" /\ cs[2] = "/") \/ HasClose(Tail(cs))

RECURSIVE AfterClose(_)
\* cs past its first */
AfterClose(cs) ==
    IF cs[1] = "*" /\ cs[2] = "/" THEN SubSeq(cs, 3, Len(cs)) ELSE AfterClose(Tail(cs))

RECURSIVE IsBlank(_)
\* whether cs is made of whitespace, line comments and terminated block
\* comments only
IsBlank(cs) ==
    \/ cs = <<>>
    \/ is_whitespace(Head(cs)) /\ IsBlank(Tail(cs))
    \/ /\ Len(cs) >= 2
       /\ cs[1] = "/"
       /\ \/ cs[2] = "/" /\ IsBlank(AfterLine(cs))
          \/ /\ cs[2] = "*"
             /\ HasClose(SubSeq(cs, 3, Len(cs)))
             /\ IsBlank(AfterClose(SubSeq(cs, 3, Len(cs))))

C7_BlankInputGivesEof ==
    IsBlank(InputChars) =>
        /\ status = "ok"
        /\ \A i \in 1..Len(tokens) : tokens[i] = EOF

(***************************************************************************)
(* C8.  line_number is 1 plus the number of newline characters consumed so *)
(* far, whichever construct consumed them.                                 *)
(***************************************************************************)
NewlinesConsumed ==
    Len(SelectSeq(SubSeq(InputChars, 1, Consumed), LAMBDA c : c = "\n"))

C8_LineCounter == status = "ok" => line_number = 1 + NewlinesConsumed

(***************************************************************************)
(* C9.  Line tracking across whitespace: for an input of identifiers, none *)
(* of them a keyword, separated by single newlines, line_number is k right *)
(* after next_token returns the k-th Identifier token.                     *)
(***************************************************************************)
RECURSIVE IsWordsOnLines(_)
\* whether cs is one identifier, or identifiers separated by single
\* newlines, none of them a keyword
IsWordsOnLines(cs) ==
    LET w == RunOf(IdentChars, cs)
        rest == SubSeq(cs, Len(w) + 1, Len(cs))
    IN  /\ w # <<>>
        /\ w[1] \notin Digits
        /\ keyword(Encode(w)) = NoToken
        /\ \/ rest = <<>>
           \/ Head(rest) = "\n" /\ IsWordsOnLines(Tail(rest))

\* the number of Identifier tokens returned so far
IdentifierCount == Len(SelectSeq(tokens, LAMBDA t : t.type = "Identifier"))

C9_LineOfKthIdentifier ==
    (/\ IsWordsOnLines(InputChars)
     /\ status = "ok"
     /\ tokens # <<>>
     /\ LastToken.type = "Identifier")
        => line_number = IdentifierCount

C9_Witness ==
    /\ IsWordsOnLines(InputChars)
    /\ status = "ok"
    /\ Len(tokens) = 3
    /\ LastToken.type = "Identifier"
    /\ line_number = 3

(***************************************************************************)
(* C10.  The engine never aborts: no call of next_token panics, whatever   *)
(* the input.                                                              *)
(***************************************************************************)
C10_NeverPanics == status # "panicked"

(***************************************************************************)
(* C11.  Unrecognized character: when the current character matches no     *)
(* classifier, the call of next_token returns an UnrecognizedCharacter     *)
(* error carrying that character and the current line number, and has      *)
(* advanced the cursor by at least one character.                          *)
(***************************************************************************)
UnrecognizedAtCursor ==
    /\ current_char # None
    /\ ~is_digit(current_char)
    /\ ~is_alphabetic(current_char)
    /\ ~is_whitespace(current_char)
    /\ current_char \notin PunctChars \cup {"_", "#", "/", "\""}

UnrecognizedCharacter(ch, line) ==
    [type |-> "UnrecognizedCharacter", ch |-> ch, line |-> line]

C11_UnrecognizedCharacter ==
    [][UnrecognizedAtCursor
          => /\ status' = "ok"
             /\ tokens' # tokens
             /\ tokens'[Len(tokens')] = UnrecognizedCharacter(current_char, line_number)
             /\ Consumed' >= Consumed + 1]_vars

(***************************************************************************)
(* C12.  Unterminated string: when the current character opens a string    *)
(* literal and no unescaped closing quote follows before end-of-input, the *)
(* call of next_token yields an UnterminatedString error, not a String     *)
(* token, and leaves nothing to scan, so that the following call returns   *)
(* EOF.                                                                    *)
(***************************************************************************)
RECURSIVE StringClose(_, _)
\* the index in cs, from i on, of the first unescaped double quote, a
\* backslash escaping the character after it; 0 when there is none
StringClose(cs, i) ==
    IF i > Len(cs)
    THEN 0
    ELSE IF cs[i] = "\""
         THEN i
         ELSE IF cs[i] = "\\" THEN StringClose(cs, i + 2) ELSE StringClose(cs, i + 1)

C12_UnterminatedString ==
    [][(current_char = "\"" /\ StringClose(Remainder, 2) = 0)
          => /\ status' = "ok"
             /\ tokens' # tokens
             /\ tokens'[Len(tokens')].type = "UnterminatedString"
             /\ current_char' = None]_vars

(***************************************************************************)
(* C13.  Unterminated block comment: when the cursor is at an opening      *)
(* slash-star that no star-slash follows before end-of-input, the call of  *)
(* next_token reports an UnterminatedComment error: it neither panics nor  *)
(* returns EOF as if the input had ended normally.                         *)
(***************************************************************************)
C13_UnterminatedComment ==
    [][(/\ Len(Remainder) >= 2
        /\ Remainder[1] = "/"
        /\ Remainder[2] = "*"
        /\ ~HasClose(SubSeq(Remainder, 3, Len(Remainder))))
          => /\ status' = "ok"
             /\ tokens' # tokens
             /\ tokens'[Len(tokens')].type = "UnterminatedComment"]_vars

(***************************************************************************)
(* C14.  Interning over the token stream: in an input of identifiers, none *)
(* a keyword, separated by single newlines, each identifier yields an      *)
(* Identifier token, two occurrences of the same text yield equal tokens,  *)
(* and occurrences of distinct texts yield different tokens; the last      *)
(* lexeme of the input is no exception.                                    *)
(***************************************************************************)
RECURSIVE Words(_)
\* the identifiers of an input that IsWordsOnLines accepts, as Strings
Words(cs) ==
    LET w == RunOf(IdentChars, cs)
        rest == SubSeq(cs, Len(w) + 1, Len(cs))
    IN  IF rest = <<>> THEN <<Encode(w)>> ELSE <<Encode(w)>> \o Words(Tail(rest))

C14_Interning ==
    (/\ IsWordsOnLines(InputChars)
     /\ status = "ok"
     /\ EofCount >= 1)
        => LET ws == Words(InputChars)
           IN  /\ Len(tokens) - EofCount = Len(ws)
               /\ \A i, j \in 1..Len(ws) :
                     /\ tokens[i].type = "Identifier"
                     /\ tokens[j].type = "Identifier"
                     /\ (ws[i] = ws[j]) <=> (tokens[i] = tokens[j])

(***************************************************************************)
(* C15.  The enumeration of the symbol table lists the identifiers in the  *)
(* order in which they were first seen in the input, so that the number    *)
(* shown with an identifier is its rank of insertion, whatever is inserted *)
(* after it.                                                               *)
(***************************************************************************)
RECURSIVE FirstSeenNames(_)
\* the texts of the Identifier tokens of ts, each once, in order of first
\* occurrence
FirstSeenNames(ts) ==
    IF ts = <<>>
    THEN <<>>
    ELSE LET before == FirstSeenNames(SubSeq(ts, 1, Len(ts) - 1))
             t == ts[Len(ts)]
         IN  IF /\ t.type = "Identifier"
                /\ \A i \in 1..Len(before) : before[i] # t.name
             THEN Append(before, t.name)
             ELSE before

C15_InsertionOrder ==
    listing.shown =>
        /\ Len(listing.rows) = Len(FirstSeenNames(tokens))
        /\ \A i \in 1..Len(listing.rows) :
              /\ listing.rows[i].idx = i
              /\ listing.rows[i].name = FirstSeenNames(tokens)[i]

(***************************************************************************)
(* C16.  Cursor invariant: position is between 0 and the length of the     *)
(* input in bytes and lies on a character boundary, the current character  *)
(* being the one that ends there; position never decreases; and advancing  *)
(* at end-of-input yields current_char = None with position unchanged.     *)
(***************************************************************************)
CursorOk ==
    /\ 0 <= position
    /\ position <= Len(input)
    /\ is_char_boundary(input, position)
    /\ current_char # None =>
          /\ position >= len_utf8(current_char)
          /\ is_char_boundary(input, position - len_utf8(current_char))
          /\ input[position - len_utf8(current_char) + 1] = current_char
    /\ position = Len(input) => next_char(Lexer) = [Lexer EXCEPT !.current_char = None]

C16_CursorInvariant ==
    /\ CursorOk
    /\ [][/\ CursorOk'
          /\ position' >= position
          /\ (position = Len(input) /\ tokens' # tokens)
                => (position' = position /\ current_char' = None)]_vars

C16_Witness ==
    /\ status = "ok"
    /\ Len(tokens) >= 2
    /\ position = Len(input)
    /\ current_char = None
    /\ Len(InputChars) < Len(input)

(***************************************************************************)
(* C17.  String literal payload: when the current character opens a string *)
(* literal that is terminated, next_token returns String carrying exactly  *)
(* the source text between the opening quote and the first unescaped       *)
(* closing quote, and leaves the cursor on the character right after the   *)
(* closing quote; wherever the literal sits, the empty literal included.   *)
(***************************************************************************)
C17_StringPayload ==
    [][(current_char = "\"" /\ StringClose(Remainder, 2) # 0)
          => LET close == StringClose(Remainder, 2)
             IN  /\ status' = "ok"
                 /\ tokens' # tokens
                 /\ tokens'[Len(tokens')] = String(Encode(SubSeq(Remainder, 2, close - 1)))
                 /\ Consumed' = Consumed + close]_vars

(***************************************************************************)
(* C18.  Lookahead: in every state seek_offset(1) is the character that    *)
(* immediately follows the current character in the input, or None when    *)
(* there is none.                                                          *)
(***************************************************************************)
C18_Lookahead ==
    status = "ok" =>
        seek_offset(Lexer, 1) = (IF Len(Remainder) >= 2 THEN Remainder[2] ELSE None)

(***************************************************************************)
(* C19.  Trailing-newline invariance: when the scan of an input completes, *)
(* and so does the scan of that input followed by one newline, the two     *)
(* token sequences are the same.                                           *)
(***************************************************************************)
C19_TrailingNewline ==
    (first_run.done /\ status = "ok" /\ EofCount = 1) => tokens = first_run.tokens

(***************************************************************************)
(* C20.  Symbol-table growth: the keys of the symbol table are the texts   *)
(* of the Identifier tokens returned so far, each key n maps to            *)
(* Identifier(n), no entry is ever removed or overwritten, and a call that *)
(* returns a token other than Identifier leaves the table unchanged.       *)
(***************************************************************************)
TableOk ==
    /\ DOMAIN symbol_table =
          {tokens[i].name : i \in {j \in 1..Len(tokens) : tokens[j].type = "Identifier"}}
    /\ \A n \in DOMAIN symbol_table : symbol_table[n] = Identifier(n)

C20_TableGrowth ==
    /\ TableOk
    /\ [][/\ TableOk'
          /\ \A n \in DOMAIN symbol_table :
                n \in DOMAIN symbol_table' /\ symbol_table'[n] = symbol_table[n]
          /\ (tokens' # tokens /\ tokens'[Len(tokens')].type # "Identifier")
                => symbol_table' = symbol_table]_vars

C20_Witness ==
    /\ Cardinality(DOMAIN symbol_table) >= 2
    /\ EofCount >= 1
    /\ \E i \in 1..Len(tokens) : tokens[i].type = "Number"
    /\ \E i \in 1..Len(tokens) : tokens[i].type = "Int"

=============================================================================
